---- MODULE Spec2Model ----
(***************************************************************************)
(* A model of the AutoVideo highlight pipeline: the orchestrator           *)
(* (cli.py), the five phases and the checkpoint models.                    *)
(*                                                                         *)
(* Times are exact, in ticks of 1/120 s, so that every chunk length the    *)
(* segmenter computes (a window divided by 1..6) and the 0.1 s tolerance   *)
(* of the Segment validator are integers.  Scores are in hundredths of a   *)
(* point (7.0 is 700).                                                     *)
(***************************************************************************)
EXTENDS Integers, Sequences, FiniteSets, TLC

VARIABLES
    pc,                 \* position of main / PipelineOrchestrator.run
    config,             \* the PipelineConfig of the current run
    media,              \* the input files: what the Media I/O reports for each path
    heap,               \* the Segment objects, by segment_id (Python references)
    next_uuid,          \* uuid.uuid4(): the next fresh segment id
    phase1_checkpoint,  \* PipelineOrchestrator.phase1_checkpoint (NoCheckpoint: None)
    phase2_checkpoint,
    phase3_checkpoint,
    phase4_checkpoint,
    phase5_checkpoint,
    files,              \* the checkpoint directory: file name -> saved JSON document
    composed,           \* the segment ids concatenated into intermediate_composed.mp4
    log,                \* the stage events of the current run, in order
    exit_code,          \* what main returned (NoExit: main has not returned)
    runs,               \* number of pipeline runs started so far
    analysed,           \* what frame extraction and the analysers returned for each
                        \* segment of the Phase 1 checkpoint in run_phase2
    interrupted         \* a KeyboardInterrupt was raised during the current run

vars == << pc, config, media, heap, next_uuid, phase1_checkpoint,
           phase2_checkpoint, phase3_checkpoint, phase4_checkpoint,
           phase5_checkpoint, files, composed, log, exit_code, runs, analysed,
           interrupted >>

-----------------------------------------------------------------------------
(* Units *)

TicksPerSecond == 12 * 10
Sec(n) == n * TicksPerSecond
Points(n) == n * 100

Abs(x) == IF x < 0 THEN 0 - x ELSE x

RECURSIVE SumSeq(_)
SumSeq(s) == IF s = << >> THEN 0 ELSE Head(s) + SumSeq(Tail(s))

Range(s) == { s[i] : i \in DOMAIN s }

-----------------------------------------------------------------------------
(* models/segment.py *)

None == 0

MinSegmentDuration == Sec(5)
MaxSegmentDuration == Sec(15)
DurationTolerance == TicksPerSecond \div 10

\* The field constraints and validators of Segment: construction raises
\* unless this holds.
SegmentValid(start_time, end_time, duration) ==
    /\ start_time >= 0
    /\ end_time > 0
    /\ end_time > start_time
    /\ duration >= MinSegmentDuration
    /\ duration <= MaxSegmentDuration
    /\ Abs(duration - (end_time - start_time)) <= DurationTolerance

\* Segment(segment_id=..., video_id=..., start_time=..., end_time=..., duration=...)
\* with the defaults of the other fields.
Segment(segment_id, video_id, start_time, end_time, duration) ==
    [ segment_id        |-> segment_id,
      video_id          |-> video_id,
      start_time        |-> start_time,
      end_time          |-> end_time,
      duration          |-> duration,
      quality_score     |-> None,
      motion_score      |-> None,
      scene_score       |-> None,
      composition_score |-> None,
      classifications   |-> << >>,
      included          |-> TRUE ]

-----------------------------------------------------------------------------
(* Python's sorted(): a stable sort by ascending key.  keys[i] is the key  *)
(* of seq[i].                                                              *)

Sorted(seq, keys) ==
    LET n == Len(seq)
        rank(i) == Cardinality({ j \in 1..n : \/ keys[j] < keys[i]
                                              \/ (keys[j] = keys[i] /\ j < i) }) + 1
    IN  [ p \in 1..n |-> seq[CHOOSE i \in 1..n : rank(i) = p] ]

\* sorted(..., reverse=True) keeps the original order of equal keys.
SortedReverse(seq, keys) == Sorted(seq, [ i \in DOMAIN keys |-> 0 - keys[i] ])

-----------------------------------------------------------------------------
(* Input paths and Path(p).stem *)

InputPaths == { "/a/clip.mp4", "/b/clip.mp4", "/a/trip.mp4" }

Stem(path) ==
    CASE path = "/a/clip.mp4" -> "clip"
      [] path = "/b/clip.mp4" -> "clip"
      [] path = "/a/trip.mp4" -> "trip"

\* The first input path whose stem is the video id (the lookup loop of
\* extract_segment_frames, extract_segments and _export_segments);
\* NoPath when the loop finds none.
NoPath == ""

RECURSIVE FindSourceVideo(_, _)
FindSourceVideo(input_videos, video_id) ==
    IF input_videos = << >> THEN NoPath
    ELSE IF Stem(Head(input_videos)) = video_id THEN Head(input_videos)
    ELSE FindSourceVideo(Tail(input_videos), video_id)

-----------------------------------------------------------------------------
(* analysis/scene_detector.py *)

\* find_scene_boundaries: frame 0, then every frame i+1 whose histogram
\* distance to frame i exceeds the threshold (cuts), in ascending order.
find_scene_boundaries(n_frames, cuts) ==
    IF n_frames < 2 THEN << >>
    ELSE LET b == {0} \cup { i \in cuts : i >= 1 /\ i <= n_frames - 1 }
         IN  [ k \in 1..Cardinality(b) |->
                 CHOOSE i \in b : Cardinality({ j \in b : j < i }) = k - 1 ]

-----------------------------------------------------------------------------
(* phases/phase1_segmentation.py *)

Window(start_time, end_time, duration) ==
    [ start_time |-> start_time, end_time |-> end_time, duration |-> duration ]

RECURSIVE Concat(_)
Concat(seqs) == IF seqs = << >> THEN << >> ELSE Head(seqs) \o Concat(Tail(seqs))

\* Whether a chunk of a split window is kept (line 232).
ChunkKeptMutantAlways(chunk_duration) == TRUE

ChunkKept(chunk_duration) ==
    chunk_duration >= MinSegmentDuration /\ chunk_duration <= MaxSegmentDuration

WindowSegmentsMutantTenSecondChunks(start_time, end_time) ==
    LET duration == end_time - start_time
    IN  IF duration < Sec(5) THEN << >>
        ELSE IF duration > Sec(15) THEN
            [ k \in 1..(duration \div Sec(10)) |->
                Window(start_time + (k - 1) * Sec(10), start_time + k * Sec(10), Sec(10)) ]
        ELSE << Window(start_time, end_time, duration) >>

\* The body of the loop over consecutive boundaries (lines 215-250): the
\* Segment constructor calls made for the window [start_time, end_time].
WindowSegments(start_time, end_time) ==
    LET duration == end_time - start_time
    IN  IF duration < Sec(5) THEN << >>
        ELSE IF duration > Sec(15) THEN
            LET num_chunks == duration \div Sec(10)
                chunk_duration == duration \div num_chunks
                chunk(chunk_idx) ==
                    LET chunk_start == start_time + (chunk_idx * chunk_duration)
                    IN  Window(chunk_start, chunk_start + chunk_duration, chunk_duration)
            IN  IF ChunkKept(chunk_duration)
                THEN [ k \in 1..num_chunks |-> chunk(k - 1) ]
                ELSE << >>
        ELSE << Window(start_time, end_time, duration) >>

TailSegmentsMutantSplit(scene_boundaries, time_per_frame, duration_seconds) ==
    IF Len(scene_boundaries) > 0
    THEN WindowSegments(scene_boundaries[Len(scene_boundaries)] * time_per_frame,
                        duration_seconds)
    ELSE << >>

\* The tail window (lines 252-267).
TailSegments(scene_boundaries, time_per_frame, duration_seconds) ==
    IF Len(scene_boundaries) > 0 THEN
        LET last_start_time == scene_boundaries[Len(scene_boundaries)] * time_per_frame
            last_duration == duration_seconds - last_start_time
        IN  IF last_duration >= Sec(5) /\ last_duration <= Sec(15)
            THEN << Window(last_start_time, duration_seconds, last_duration) >>
            ELSE << >>
    ELSE << >>

detect_segmentsMutantTailFirst(video, sample_rate_fps) ==
    IF video.n_frames < 2 THEN << >>
    ELSE
        LET scene_boundaries == find_scene_boundaries(video.n_frames, video.cuts)
            time_per_frame == TicksPerSecond \div sample_rate_fps
        IN  TailSegments(scene_boundaries, time_per_frame, video.duration_seconds)
            \o Concat([ i \in 1..(Len(scene_boundaries) - 1) |->
                           WindowSegments(scene_boundaries[i] * time_per_frame,
                                          scene_boundaries[i + 1] * time_per_frame) ])

\* detect_segments: the Segment constructor calls for one video, in order.
detect_segments(video, sample_rate_fps) ==
    IF video.n_frames < 2 THEN << >>
    ELSE
        LET scene_boundaries == find_scene_boundaries(video.n_frames, video.cuts)
            time_per_frame == TicksPerSecond \div sample_rate_fps
        IN  Concat([ i \in 1..(Len(scene_boundaries) - 1) |->
                        WindowSegments(scene_boundaries[i] * time_per_frame,
                                       scene_boundaries[i + 1] * time_per_frame) ])
            \o TailSegments(scene_boundaries, time_per_frame, video.duration_seconds)

\* validate_videos: the input paths that exist and pass the ffprobe check.
validate_videos(input_videos, m) ==
    SelectSeq(input_videos, LAMBDA p : m[p].exists /\ m[p].valid_mp4)

\* extract_video_metadata / VideoReader.open raise for a file OpenCV cannot
\* open or probe; VideoSource raises for a duration that is not positive.
VideoRaises(video) == ~video.openable \/ video.duration_seconds <= 0

\* Phase1Segmentation.execute up to the checkpoint: raised, or the windows of
\* all valid videos in input order, each with its video id.
Phase1Windows(cfg, m) ==
    LET valid_videos == validate_videos(cfg.input_videos, m)
        of(p) == LET w == detect_segments(m[p], cfg.sample_rate_fps)
                 IN  [ i \in 1..Len(w) |->
                         [ video_id |-> Stem(p), source |-> p, window |-> w[i] ] ]
    IN  Concat([ i \in 1..Len(valid_videos) |-> of(valid_videos[i]) ])

Phase1RaisesMutantNoMinLength(cfg, m) ==
    LET valid_videos == validate_videos(cfg.input_videos, m)
        windows == Phase1Windows(cfg, m)
    IN  \/ valid_videos = << >>
        \/ \E i \in 1..Len(valid_videos) : VideoRaises(m[valid_videos[i]])
        \/ \E i \in 1..Len(windows) :
              ~SegmentValid(windows[i].window.start_time, windows[i].window.end_time,
                            windows[i].window.duration)

Phase1Raises(cfg, m) ==
    LET valid_videos == validate_videos(cfg.input_videos, m)
        windows == Phase1Windows(cfg, m)
    IN  \/ valid_videos = << >>
        \/ \E i \in 1..Len(valid_videos) : VideoRaises(m[valid_videos[i]])
        \/ \E i \in 1..Len(windows) :
              ~SegmentValid(windows[i].window.start_time, windows[i].window.end_time,
                            windows[i].window.duration)
        \/ Len(windows) < 1          \* Phase1Checkpoint.segments: min_length=1

-----------------------------------------------------------------------------
(* phases/phase2_ranking.py *)

\* round(x, 1) of a value given as num/den points, in hundredths of a point;
\* an exact tie goes to the even tenth.
Round1(num, den) ==
    LET t == (num * 10) \div den                 \* tenths, rounded down
        r == (num * 10) - (t * den)              \* remainder, 0 <= r < den
    IN  IF 2 * r > den \/ (2 * r = den /\ t % 2 = 1) THEN (t + 1) * 10 ELSE t * 10

\* calculate_quality_score: the weights of __init__ (0.6, 0.25, 0.15) as
\* hundredths; the scores are in hundredths of a point.
WeightScene == 60
WeightMotion == 25
WeightComposition == 15

calculate_quality_scoreMutantSwapped(motion_score, scene_score, composition_score) ==
    Round1(WeightScene * motion_score + WeightMotion * scene_score
             + WeightComposition * composition_score, 100 * 100)

calculate_quality_score(motion_score, scene_score, composition_score) ==
    Round1(WeightScene * scene_score + WeightMotion * motion_score
             + WeightComposition * composition_score, 100 * 100)

classify_segmentMutantElif(motion_score, scene_score, composition_score) ==
    IF motion_score >= Points(7) THEN << "high-action" >>
    ELSE IF motion_score <= Points(3) THEN << "static" >>
    ELSE IF scene_score >= Points(6) THEN << "dynamic-scene" >>
    ELSE IF composition_score >= Points(8) THEN << "visually-rich" >>
    ELSE << "neutral" >>

\* classify_segment
classify_segment(motion_score, scene_score, composition_score) ==
    LET tags ==
            (IF motion_score >= Points(7) THEN << "high-action" >> ELSE << >>)
         \o (IF motion_score <= Points(3) THEN << "static" >> ELSE << >>)
         \o (IF scene_score >= Points(6) THEN << "dynamic-scene" >> ELSE << >>)
         \o (IF composition_score >= Points(8) THEN << "visually-rich" >> ELSE << >>)
         \o (IF motion_score >= Points(6) /\ scene_score >= Points(6)
             THEN << "highlight-candidate" >> ELSE << >>)
    IN  IF tags = << >> THEN << "neutral" >> ELSE tags

\* extract_segment_frames: no frames when no input path has the segment's
\* video id as its stem; otherwise the frames that could be read (n_read).
extract_segment_frames(segment, input_videos, n_read) ==
    IF FindSourceVideo(input_videos, segment.video_id) = NoPath THEN 0 ELSE n_read

score_segmentMutantStillIncluded(segment, a, cfg) ==
    IF extract_segment_frames(segment, cfg.input_videos, a.frames) < 2 THEN
        [ segment EXCEPT !.motion_score = Points(1),
                         !.scene_score = Points(1),
                         !.composition_score = Points(1),
                         !.quality_score = Points(1),
                         !.classifications = << "neutral" >> ]
    ELSE
        LET quality_score == calculate_quality_score(a.motion, a.scene, a.composition)
        IN  [ segment EXCEPT !.motion_score = Round1(a.motion, 100),
                             !.scene_score = Round1(a.scene, 100),
                             !.composition_score = Round1(a.composition, 100),
                             !.quality_score = Round1(quality_score, 100),
                             !.classifications =
                                 classify_segment(a.motion, a.scene, a.composition),
                             !.included = (quality_score >= cfg.min_quality_threshold) ]

\* score_segment: the Segment object after the call.  a is what the frame
\* extraction and the analysers yield for the segment: the number of frames
\* read and the three raw scores.
score_segment(segment, a, cfg) ==
    IF extract_segment_frames(segment, cfg.input_videos, a.frames) < 2 THEN
        [ segment EXCEPT !.motion_score = Points(1),
                         !.scene_score = Points(1),
                         !.composition_score = Points(1),
                         !.quality_score = Points(1),
                         !.classifications = << "neutral" >>,
                         !.included = FALSE ]
    ELSE
        LET quality_score == calculate_quality_score(a.motion, a.scene, a.composition)
        IN  [ segment EXCEPT !.motion_score = Round1(a.motion, 100),
                             !.scene_score = Round1(a.scene, 100),
                             !.composition_score = Round1(a.composition, 100),
                             !.quality_score = Round1(quality_score, 100),
                             !.classifications =
                                 classify_segment(a.motion, a.scene, a.composition),
                             !.included = (quality_score >= cfg.min_quality_threshold) ]

\* The count of execute (lines 100-103) for one scored segment.
AboveThresholdMutantGreater(seg, cfg) ==
    seg.quality_score # None /\ seg.quality_score > cfg.min_quality_threshold

AboveThreshold(seg, cfg) ==
    seg.quality_score # None /\ seg.quality_score >= cfg.min_quality_threshold

segments_above_threshold(scored_segments, cfg) ==
    Len(SelectSeq(scored_segments, LAMBDA seg : AboveThreshold(seg, cfg)))

validate_weightsMutantSumOnly(keys, total) == Abs(total - 100) <= 1

\* Phase2Checkpoint.validate_weights, on the keys of the map and the sum of
\* its values in hundredths.  (For a sum that differs from 1.0 by exactly
\* 0.01 the floating-point comparison can go either way.)
validate_weights(keys, total) ==
    keys = { "scene", "motion", "composition" } /\ Abs(total - 100) <= 1

-----------------------------------------------------------------------------
(* phases/phase3_assembly.py *)

\* The "allow small overage" test of the greedy walk (line 126).
AlmostThereMutantAlways(current_duration, duration, target_duration) == TRUE

AlmostThereMutantNever(current_duration, duration, target_duration) == FALSE

AlmostThere(current_duration, duration, target_duration) ==
    (current_duration + duration) - target_duration < Sec(5)

\* The loop of select_segments (lines 115-133) from position i of the sorted
\* list on: the selected list and its duration when the loop ends.
RECURSIVE GreedyWalkMutantFirstOnly(_, _, _, _, _)
GreedyWalkMutantFirstOnly(sorted_segments, i, selected, current_duration, target_duration) ==
    IF i > Len(sorted_segments) THEN [ selected |-> selected, current_duration |-> current_duration ]
    ELSE [ selected |-> << sorted_segments[i] >>,
           current_duration |-> sorted_segments[i].duration ]

RECURSIVE GreedyWalkMutantStopOnSkip(_, _, _, _, _)
GreedyWalkMutantStopOnSkip(sorted_segments, i, selected, current_duration, target_duration) ==
    IF i > Len(sorted_segments)
    THEN [ selected |-> selected, current_duration |-> current_duration ]
    ELSE
        LET segment == sorted_segments[i]
            added == [ selected |-> Append(selected, segment),
                       current_duration |-> current_duration + segment.duration ]
            kept == [ selected |-> selected, current_duration |-> current_duration ]
        IN  IF current_duration + segment.duration <= target_duration THEN
                IF added.current_duration >= target_duration THEN added
                ELSE GreedyWalkMutantStopOnSkip(sorted_segments, i + 1, added.selected,
                                                added.current_duration, target_duration)
            ELSE IF current_duration < target_duration
                    /\ AlmostThere(current_duration, segment.duration, target_duration)
                THEN added
            ELSE kept

RECURSIVE GreedyWalk(_, _, _, _, _)
GreedyWalk(sorted_segments, i, selected, current_duration, target_duration) ==
    IF i > Len(sorted_segments)
    THEN [ selected |-> selected, current_duration |-> current_duration ]
    ELSE
        LET segment == sorted_segments[i]
            added == [ selected |-> Append(selected, segment),
                       current_duration |-> current_duration + segment.duration ]
            kept == [ selected |-> selected, current_duration |-> current_duration ]
        IN  IF current_duration + segment.duration <= target_duration THEN
                IF added.current_duration >= target_duration THEN added
                ELSE GreedyWalk(sorted_segments, i + 1, added.selected,
                                added.current_duration, target_duration)
            ELSE IF current_duration < target_duration
                    /\ AlmostThere(current_duration, segment.duration, target_duration)
                THEN added                                      \* break
            ELSE IF current_duration >= target_duration THEN kept
            ELSE GreedyWalk(sorted_segments, i + 1, selected, current_duration,
                            target_duration)

\* The sort of line 113: by quality score (None counts as 0), descending.
SortByQuality(segments) ==
    SortedReverse(segments, [ i \in DOMAIN segments |-> segments[i].quality_score ])

Greedy(segments, target_duration) ==
    GreedyWalk(SortByQuality(segments), 1, << >>, 0, target_duration)

TotalAvailable(segments) ==
    SumSeq([ i \in DOMAIN segments |-> segments[i].duration ])

\* The fallback of lines 136-140.
FallbackTaken(segments, target_duration) ==
    /\ Greedy(segments, target_duration).current_duration < target_duration
    /\ TotalAvailable(segments) < target_duration

\* The final ordering of line 144.
SortChronologicallyMutantNone(selected) == selected

SortChronologically(selected) ==
    Sorted(selected, [ i \in DOMAIN selected |-> selected[i].start_time ])

\* select_segments: the segment ids returned.
select_segments(segments, target_duration) ==
    LET selected == IF FallbackTaken(segments, target_duration)
                    THEN segments
                    ELSE Greedy(segments, target_duration).selected
        selected_ordered == SortChronologically(selected)
    IN  [ i \in DOMAIN selected_ordered |-> selected_ordered[i].segment_id ]

\* calculate_variety_score: the class body defines the method twice and the
\* second definition (lines 210-224) is the one bound to the name.
calculate_variety_score(segments) == Points(1) \div 2

\* order_chronologically (lines 188-208); no caller.
order_chronologically(segment_ids, segments) == segment_ids

-----------------------------------------------------------------------------
(* models/checkpoint.py *)

NoCheckpoint == [ phase |-> 0 ]

Phase1Checkpoint(input_video_paths, segments, total_segments, sample_rate_fps) ==
    [ phase |-> 1, input_video_paths |-> input_video_paths, segments |-> segments,
      total_segments |-> total_segments, sample_rate_fps |-> sample_rate_fps ]

Phase2Checkpoint(input_video_paths, segments, min_quality_threshold, above, score_weights) ==
    [ phase |-> 2, input_video_paths |-> input_video_paths, segments |-> segments,
      min_quality_threshold |-> min_quality_threshold,
      segments_above_threshold |-> above, score_weights |-> score_weights ]

\* What makes the Phase2Checkpoint constructor raise.
Phase2CheckpointValid(segments, min_quality_threshold, above, score_weights) ==
    /\ Len(segments) >= 1
    /\ min_quality_threshold >= Points(1) /\ min_quality_threshold <= Points(10)
    /\ validate_weights(DOMAIN score_weights,
                        score_weights["scene"] + score_weights["motion"]
                          + score_weights["composition"])
    /\ above # 0                            \* validate_threshold_count

Phase3Checkpoint(input_video_paths, selected_segments, target_duration, actual_duration, variety_score) ==
    [ phase |-> 3, input_video_paths |-> input_video_paths,
      selected_segments |-> selected_segments, target_duration |-> target_duration,
      actual_duration |-> actual_duration, selection_algorithm |-> "greedy_variety",
      variety_score |-> variety_score ]

Phase3CheckpointValid(target_duration, actual_duration, variety_score) ==
    /\ target_duration > 0
    /\ actual_duration > 0
    /\ variety_score >= 0 /\ variety_score <= Points(1)

Phase4Checkpoint(input_video_paths, transition_type) ==
    [ phase |-> 4, input_video_paths |-> input_video_paths,
      transition_type |-> transition_type ]

Phase5Checkpoint(input_video_paths, normalize_audio) ==
    [ phase |-> 5, input_video_paths |-> input_video_paths,
      normalize_audio |-> normalize_audio ]

-----------------------------------------------------------------------------
(* The phases' execute methods as functions of what they read *)

score_weights == [ scene |-> WeightScene, motion |-> WeightMotion,
                   composition |-> WeightComposition ]

\* The Segment objects a list of references denotes.
Deref(h, ids) == [ i \in DOMAIN ids |-> h[ids[i]] ]

\* Phase1Segmentation.execute when it does not raise: the new Segment
\* objects (ids uuid0 + 1, ...) and the checkpoint.
Phase1Result(cfg, m, uuid0) ==
    LET windows == Phase1Windows(cfg, m)
        ids == [ i \in 1..Len(windows) |-> uuid0 + i ]
    IN  [ heap |-> [ id \in Range(ids) |->
                       LET w == windows[id - uuid0]
                       IN  Segment(id, w.video_id, w.window.start_time,
                                   w.window.end_time, w.window.duration) ],
          checkpoint |-> Phase1Checkpoint(cfg.input_videos, ids, Len(ids),
                                          cfg.sample_rate_fps),
          next_uuid |-> uuid0 + Len(windows) ]

\* Phase2Ranking.execute: the Segment objects after the scoring loop (the
\* loop assigns to the objects the Phase 1 checkpoint refers to), whether
\* execute raises, and the checkpoint it returns otherwise.  a[i] is what
\* the analysis yields for the i-th segment.
Phase2Result(cfg, h, checkpoint1, a) ==
    LET ids == checkpoint1.segments
        scored == [ id \in DOMAIN h |->
                      IF id \in Range(ids)
                      THEN LET i == CHOOSE k \in DOMAIN ids : ids[k] = id
                           IN  score_segment(h[id], a[i], cfg)
                      ELSE h[id] ]
        above == segments_above_threshold(Deref(scored, ids), cfg)
    IN  [ heap |-> scored,
          raises |-> \/ above = 0
                     \/ ~Phase2CheckpointValid(ids, cfg.min_quality_threshold, above,
                                               score_weights),
          checkpoint |-> Phase2Checkpoint(checkpoint1.input_video_paths, ids,
                                          cfg.min_quality_threshold, above,
                                          score_weights) ]

\* The filter of execute (line 58).
IncludedOnlyMutantAll(segments) == segments

IncludedOnly(segments) == SelectSeq(segments, LAMBDA s : s.included)

\* Phase3Assembly.execute.
Phase3Result(cfg, h, checkpoint2) ==
    LET included_segments == IncludedOnly(Deref(h, checkpoint2.segments))
        selected_segment_ids ==
            IF included_segments = << >> THEN << >>
            ELSE select_segments(included_segments, cfg.target_duration)
        selected_segments ==
            SelectSeq(included_segments,
                      LAMBDA s : s.segment_id \in Range(selected_segment_ids))
        actual_duration == TotalAvailable(selected_segments)
        variety_score == calculate_variety_score(selected_segments)
    IN  [ raises |-> \/ included_segments = << >>
                     \/ ~Phase3CheckpointValid(cfg.target_duration, actual_duration,
                                               variety_score),
          checkpoint |-> Phase3Checkpoint(checkpoint2.input_video_paths,
                                          selected_segment_ids, cfg.target_duration,
                                          actual_duration, variety_score) ]

\* Phase4Composition.extract_segments: the selected segments found in the
\* Phase 2 checkpoint whose source video is found and whose extraction
\* does not fail (failed: the positions where FFmpeg fails).
extract_segments(cfg, h, checkpoint2, checkpoint3, failed) ==
    LET found == SelectSeq(checkpoint3.selected_segments,
                           LAMBDA id : id \in Range(checkpoint2.segments))
        ok(i) == /\ FindSourceVideo(cfg.input_videos, h[found[i]].video_id) # NoPath
                 /\ i \notin failed
        kept == { i \in DOMAIN found : ok(i) }
    IN  [ k \in 1..Cardinality(kept) |->
            found[CHOOSE i \in kept : Cardinality({ j \in kept : j < i }) = k - 1] ]

\* model_dump(mode='json'): the document _save_checkpoint writes.
Dump(h, checkpoint) ==
    IF checkpoint.phase \in { 1, 2 }
    THEN [ checkpoint EXCEPT !.segments = Deref(h, checkpoint.segments) ]
    ELSE checkpoint

-----------------------------------------------------------------------------
(* The input files *)

\* A readable MP4 of duration_s seconds sampled at 1 fps (one frame per
\* second started), with scene changes at the frames in cuts.
Video(duration_s, cuts, file_timestamp) ==
    [ exists |-> TRUE, valid_mp4 |-> TRUE, openable |-> TRUE,
      duration_seconds |-> Sec(duration_s), n_frames |-> duration_s,
      cuts |-> cuts, file_timestamp |-> file_timestamp ]

\* A file of which read_frames yields only frames_read frames (decoding
\* stops early, or the sample interval is longer than the file), while the
\* container still reports the full duration.
ShortRead(video, frames_read) == [ video EXCEPT !.n_frames = frames_read ]

MissingFile == [ Video(1, {}, 0) EXCEPT !.exists = FALSE, !.valid_mp4 = FALSE,
                                        !.openable = FALSE ]
InvalidFile == [ Video(1, {}, 0) EXCEPT !.valid_mp4 = FALSE, !.openable = FALSE ]
BrokenFile == [ Video(1, {}, 0) EXCEPT !.openable = FALSE ]

-----------------------------------------------------------------------------
(* cli.py: main and PipelineOrchestrator.run *)

NoExit == 0 - 1
NoConfig == [ input_videos |-> << >> ]

CheckpointFiles ==
    { "phase1_phase1checkpoint.json", "phase2_phase2checkpoint.json",
      "phase3_phase3checkpoint.json", "phase4_phase4checkpoint.json",
      "phase5_phase5checkpoint.json" }

CheckpointFileNameMutantShared(phase) == "phase1_phase1checkpoint.json"

\* The file name _save_checkpoint builds (line 239).
CheckpointFileName(phase) ==
    CASE phase = 1 -> "phase1_phase1checkpoint.json"
      [] phase = 2 -> "phase2_phase2checkpoint.json"
      [] phase = 3 -> "phase3_phase3checkpoint.json"
      [] phase = 4 -> "phase4_phase4checkpoint.json"
      [] phase = 5 -> "phase5_phase5checkpoint.json"

Running == { "phase1", "save1", "phase2", "save2", "phase3", "save3",
             "phase4", "save4", "phase5", "save5" }

\* What frame extraction and the analysers can yield for a segment.
Analysis(frames, motion, scene, composition) ==
    [ frames |-> frames, motion |-> motion, scene |-> scene,
      composition |-> composition ]

\* An exception leaves run (logged, re-raised) and main returns 1.
Raise(phase) ==
    /\ pc' = "exited"
    /\ exit_code' = 1
    /\ log' = Append(log, << "failed", phase >>)

\* main up to the first phase: the configuration, the check that every
\* input exists, a fresh orchestrator, the FFmpeg check.
Main(input_lists, targets, thresholds, resume_phases) ==
    /\ pc \in { "idle", "exited" }
    /\ \E input_videos \in input_lists, target_duration \in targets,
          min_quality_threshold \in thresholds, resume_from_phase \in resume_phases,
          ffmpeg_available \in BOOLEAN :
          /\ config' = [ input_videos |-> input_videos,
                         target_duration |-> target_duration,
                         min_quality_threshold |-> min_quality_threshold,
                         sample_rate_fps |-> 1,
                         resume_from_phase |-> resume_from_phase ]
          /\ IF /\ \A i \in DOMAIN input_videos : media[input_videos[i]].exists
                /\ ffmpeg_available
             THEN pc' = "phase1" /\ exit_code' = NoExit
             ELSE pc' = "exited" /\ exit_code' = 1
    /\ runs' = runs + 1
    /\ heap' = << >>
    /\ phase1_checkpoint' = NoCheckpoint
    /\ phase2_checkpoint' = NoCheckpoint
    /\ phase3_checkpoint' = NoCheckpoint
    /\ phase4_checkpoint' = NoCheckpoint
    /\ phase5_checkpoint' = NoCheckpoint
    /\ composed' = << >>
    /\ log' = << >>
    /\ analysed' = << >>
    /\ interrupted' = FALSE
    /\ UNCHANGED << media, next_uuid, files >>

\* run_phase1
RunPhase1 ==
    /\ pc = "phase1"
    /\ IF Phase1Raises(config, media)
       THEN /\ Raise(1)
            /\ UNCHANGED << heap, next_uuid, phase1_checkpoint >>
       ELSE LET r == Phase1Result(config, media, next_uuid)
            IN  /\ heap' = r.heap
                /\ next_uuid' = r.next_uuid
                /\ phase1_checkpoint' = r.checkpoint
                /\ pc' = "save1"
                /\ log' = Append(log, << "ran", 1 >>)
                /\ UNCHANGED exit_code
    /\ UNCHANGED << config, media, phase2_checkpoint, phase3_checkpoint,
                    phase4_checkpoint, phase5_checkpoint, files, composed, runs,
                    analysed, interrupted >>

SaveCheckpointMutantSkip(phase, checkpoint, next_pc) ==
    /\ pc' = next_pc
    /\ log' = Append(log, << "saved", phase >>)
    /\ UNCHANGED << config, media, heap, next_uuid, phase1_checkpoint,
                    phase2_checkpoint, phase3_checkpoint, phase4_checkpoint,
                    phase5_checkpoint, files, composed, runs, analysed, interrupted >>

\* _save_checkpoint
SaveCheckpoint(phase, checkpoint, next_pc) ==
    /\ files' = [ files EXCEPT ![CheckpointFileName(phase)] = Dump(heap, checkpoint) ]
    /\ pc' = next_pc
    /\ log' = Append(log, << "saved", phase >>)
    /\ UNCHANGED << config, media, heap, next_uuid, phase1_checkpoint,
                    phase2_checkpoint, phase3_checkpoint, phase4_checkpoint,
                    phase5_checkpoint, composed, runs, analysed, interrupted >>

SaveCheckpoint1 ==
    /\ pc = "save1"
    /\ SaveCheckpoint(1, phase1_checkpoint, "phase2")
    /\ UNCHANGED exit_code

\* run_phase2; the analysis of each segment yields one of results.
Phase2(results) ==
    /\ pc = "phase2"
    /\ IF phase1_checkpoint = NoCheckpoint
       THEN Raise(2) /\ UNCHANGED << heap, phase2_checkpoint, analysed >>
       ELSE \E a \in [ DOMAIN phase1_checkpoint.segments -> results ] :
              LET r == Phase2Result(config, heap, phase1_checkpoint, a)
              IN  /\ heap' = r.heap
                  /\ analysed' = a
                  /\ IF r.raises
                     THEN Raise(2) /\ UNCHANGED phase2_checkpoint
                     ELSE /\ phase2_checkpoint' = r.checkpoint
                          /\ pc' = "save2"
                          /\ log' = Append(log, << "ran", 2 >>)
                          /\ UNCHANGED exit_code
    /\ UNCHANGED << config, media, next_uuid, phase1_checkpoint, phase3_checkpoint,
                    phase4_checkpoint, phase5_checkpoint, files, composed, runs,
                    interrupted >>

SaveCheckpoint2 ==
    /\ pc = "save2"
    /\ SaveCheckpoint(2, phase2_checkpoint, "phase3")
    /\ UNCHANGED exit_code

\* run_phase3
RunPhase3 ==
    /\ pc = "phase3"
    /\ IF phase2_checkpoint = NoCheckpoint
       THEN Raise(3) /\ UNCHANGED phase3_checkpoint
       ELSE LET r == Phase3Result(config, heap, phase2_checkpoint)
            IN  IF r.raises
                THEN Raise(3) /\ UNCHANGED phase3_checkpoint
                ELSE /\ phase3_checkpoint' = r.checkpoint
                     /\ pc' = "save3"
                     /\ log' = Append(log, << "ran", 3 >>)
                     /\ UNCHANGED exit_code
    /\ UNCHANGED << config, media, heap, next_uuid, phase1_checkpoint,
                    phase2_checkpoint, phase4_checkpoint, phase5_checkpoint, files,
                    composed, runs, analysed, interrupted >>

SaveCheckpoint3 ==
    /\ pc = "save3"
    /\ SaveCheckpoint(3, phase3_checkpoint, "phase4")
    /\ UNCHANGED exit_code

\* The extraction failures FFmpeg can produce for n selected segments: none,
\* any single one, or all of them.
ExtractionFailures(n) ==
    { {} } \cup { { i } : i \in 1..n } \cup { 1..n }

\* FFmpegWrapper.concatenate_videos removes its list file in a finally block
\* under a bare except (ffmpeg_wrapper.py 185-189): a KeyboardInterrupt
\* raised there is caught and dropped, and the run goes on.  The block is
\* reached only when there is something to concatenate.
CleanupInterrupt(segment_files, in_cleanup) ==
    segment_files # << >> /\ in_cleanup

\* run_phase4
RunPhase4 ==
    /\ pc = "phase4"
    /\ IF phase2_checkpoint = NoCheckpoint \/ phase3_checkpoint = NoCheckpoint
       THEN Raise(4) /\ UNCHANGED << phase4_checkpoint, composed, interrupted >>
       ELSE \E failed \in ExtractionFailures(Len(phase3_checkpoint.selected_segments)),
               concatenated \in BOOLEAN, in_cleanup \in BOOLEAN :
              LET segment_files == extract_segments(config, heap, phase2_checkpoint,
                                                    phase3_checkpoint, failed)
              IN  /\ interrupted' =
                         (interrupted \/ CleanupInterrupt(segment_files, in_cleanup))
                  /\ IF segment_files = << >> \/ ~concatenated
                     THEN Raise(4) /\ UNCHANGED << phase4_checkpoint, composed >>
                     ELSE /\ composed' = segment_files
                          /\ phase4_checkpoint' =
                                 Phase4Checkpoint(phase3_checkpoint.input_video_paths,
                                                  "cut")
                          /\ pc' = "save4"
                          /\ log' = Append(log, << "ran", 4 >>)
                          /\ UNCHANGED exit_code
    /\ UNCHANGED << config, media, heap, next_uuid, phase1_checkpoint,
                    phase2_checkpoint, phase3_checkpoint, phase5_checkpoint, files,
                    runs, analysed >>

SaveCheckpoint4 ==
    /\ pc = "save4"
    /\ SaveCheckpoint(4, phase4_checkpoint, "phase5")
    /\ UNCHANGED exit_code

\* run_phase5: without normalisation the composed video is copied.
RunPhase5 ==
    /\ pc = "phase5"
    /\ IF phase4_checkpoint = NoCheckpoint
       THEN Raise(5) /\ UNCHANGED phase5_checkpoint
       ELSE \E copied \in BOOLEAN :
              IF ~copied
              THEN Raise(5) /\ UNCHANGED phase5_checkpoint
              ELSE /\ phase5_checkpoint' =
                          Phase5Checkpoint(phase4_checkpoint.input_video_paths, FALSE)
                   /\ pc' = "save5"
                   /\ log' = Append(log, << "ran", 5 >>)
                   /\ UNCHANGED exit_code
    /\ UNCHANGED << config, media, heap, next_uuid, phase1_checkpoint,
                    phase2_checkpoint, phase3_checkpoint, phase4_checkpoint, files,
                    composed, runs, analysed, interrupted >>

\* The last save, the summary, and main's return 0.
SaveCheckpoint5 ==
    /\ pc = "save5"
    /\ SaveCheckpoint(5, phase5_checkpoint, "exited")
    /\ exit_code' = 0

\* KeyboardInterrupt during run: not an Exception, so it passes run's handler
\* and main returns 130.
Interrupt ==
    /\ pc \in Running
    /\ pc' = "exited"
    /\ exit_code' = 130
    /\ log' = Append(log, << "interrupted", 0 >>)
    /\ interrupted' = TRUE
    /\ UNCHANGED << config, media, heap, next_uuid, phase1_checkpoint,
                    phase2_checkpoint, phase3_checkpoint, phase4_checkpoint,
                    phase5_checkpoint, files, composed, runs, analysed >>

-----------------------------------------------------------------------------
(* One run of the pipeline *)

InsufficientFrames == Analysis(1, Points(1), Points(1), Points(1))
DullFrames == Analysis(5, 320, 500, 600)           \* quality 4.7
LivelyFrames == Analysis(5, 820, 700, 900)         \* quality 7.6

\* The values main's arguments are drawn from.
InputLists == { << "/a/clip.mp4" >>, << "/a/clip.mp4", "/a/trip.mp4" >>,
                << "/a/trip.mp4", "/b/clip.mp4" >> }
Targets == { Sec(12), Sec(30) }
Thresholds == { Points(1), Points(7) }

\* The files the run finds at the input paths.
PipelineMedia ==
    { [ p \in InputPaths |->
          CASE p = "/a/clip.mp4" -> clip
            [] p = "/a/trip.mp4" -> trip
            [] p = "/b/clip.mp4" -> Video(12, {}, 300) ] :
        clip \in { Video(17, { 10 }, 100), Video(40, {}, 100), Video(27, { 17 }, 100),
                   Video(52, { 4, 40 }, 100), InvalidFile },
        trip \in { Video(28, { 25 }, 200), BrokenFile, MissingFile } }

InitWith(m) ==
    /\ pc = "idle"
    /\ config = NoConfig
    /\ media \in m
    /\ heap = << >>
    /\ next_uuid = 0
    /\ phase1_checkpoint = NoCheckpoint
    /\ phase2_checkpoint = NoCheckpoint
    /\ phase3_checkpoint = NoCheckpoint
    /\ phase4_checkpoint = NoCheckpoint
    /\ phase5_checkpoint = NoCheckpoint
    /\ files = [ f \in CheckpointFiles |-> NoCheckpoint ]
    /\ composed = << >>
    /\ log = << >>
    /\ exit_code = NoExit
    /\ runs = 0
    /\ analysed = << >>
    /\ interrupted = FALSE

Init == InitWith(PipelineMedia)

StartRun ==
    /\ runs = 0
    /\ Main(InputLists, Targets, Thresholds, { 1 })

RunPhase2 == Phase2({ InsufficientFrames, DullFrames, LivelyFrames })

Next ==
    \/ StartRun
    \/ RunPhase1
    \/ SaveCheckpoint1
    \/ RunPhase2
    \/ SaveCheckpoint2
    \/ RunPhase3
    \/ SaveCheckpoint3
    \/ RunPhase4
    \/ SaveCheckpoint4
    \/ RunPhase5
    \/ SaveCheckpoint5
    \/ Interrupt

Spec == Init /\ [][Next]_vars

-----------------------------------------------------------------------------
(* Properties of one run *)

Phases == 1..5

CheckpointOf(phase) ==
    CASE phase = 1 -> phase1_checkpoint
      [] phase = 2 -> phase2_checkpoint
      [] phase = 3 -> phase3_checkpoint
      [] phase = 4 -> phase4_checkpoint
      [] phase = 5 -> phase5_checkpoint

Logged(event, phase) == \E i \in DOMAIN log : log[i] = << event, phase >>

Count(event, phase) == Cardinality({ i \in DOMAIN log : log[i] = << event, phase >> })

\* The Segment records of the checkpoint files of Phases 1 and 2.
SavedSegments ==
    UNION { Range(files[f].segments) : f \in { g \in CheckpointFiles : files[g].phase \in { 1, 2 } } }

WellFormed(start_time, end_time, duration) ==
    /\ end_time > start_time
    /\ duration >= Sec(5) /\ duration <= Sec(15)
    /\ Abs(duration - (end_time - start_time)) <= Sec(1) \div 10

\* C2: every Segment, in memory or in a checkpoint file, has end_time >
\* start_time, a duration in [5 s, 15 s] and a duration within 0.1 s of
\* end_time - start_time; and Phase 1 hands the Segment constructor no
\* window that fails one of these checks.
C2_SegmentsWellFormed ==
    /\ \A id \in DOMAIN heap :
          WellFormed(heap[id].start_time, heap[id].end_time, heap[id].duration)
    /\ \A seg \in SavedSegments : WellFormed(seg.start_time, seg.end_time, seg.duration)
    /\ pc \in Running =>
          LET windows == Phase1Windows(config, media)
          IN  \A i \in DOMAIN windows :
                 WellFormed(windows[i].window.start_time, windows[i].window.end_time,
                            windows[i].window.duration)

\* C2 witness: the Phase 1 checkpoint of a video with a window under 5 s
\* (dropped), a 36 s window (split into three 12 s segments) and a 12 s tail
\* is saved.
C2_Witness ==
    /\ Logged("saved", 1)
    /\ media["/a/clip.mp4"].cuts = { 4, 40 }
    /\ config.input_videos = << "/a/clip.mp4" >>
    /\ Len(files["phase1_phase1checkpoint.json"].segments) = 4
    /\ \E seg \in SavedSegments : seg.start_time = Sec(16) /\ seg.duration = Sec(12)

\* C3: every Phase 2 checkpoint has at least one segment with included true.
C3_CheckpointHasIncluded ==
    phase2_checkpoint # NoCheckpoint =>
        \E i \in DOMAIN phase2_checkpoint.segments :
            heap[phase2_checkpoint.segments[i]].included

\* C4: the segments of the Phase 1 checkpoint keep null scores, no
\* classifications and their original included flag.
C4_Phase1CheckpointUnchanged ==
    phase1_checkpoint # NoCheckpoint =>
        \A i \in DOMAIN phase1_checkpoint.segments :
            LET seg == heap[phase1_checkpoint.segments[i]]
            IN  /\ seg.quality_score = None
                /\ seg.motion_score = None
                /\ seg.scene_score = None
                /\ seg.composition_score = None
                /\ seg.classifications = << >>
                /\ seg.included

\* The document a saved checkpoint file holds for as long as the run lasts.
AsWritten(phase) ==
    IF phase = 1
    THEN LET r == Phase1Result(config, media, 0) IN Dump(r.heap, r.checkpoint)
    ELSE Dump(heap, CheckpointOf(phase))

\* C5: in one run a stage is saved at most once and only after it returned
\* its checkpoint; a stage that failed is not saved and ends the run; the
\* checkpoint files are exactly those saved, each as it was written.
C5_OneCheckpointPerStage ==
    /\ \A n \in Phases :
          /\ Count("saved", n) <= 1
          /\ Logged("saved", n) => Logged("ran", n) /\ ~Logged("failed", n)
          /\ Logged("saved", n) => \E f \in CheckpointFiles : files[f] = AsWritten(n)
          /\ Logged("failed", n) =>
                /\ pc = "exited"
                /\ log[Len(log)] = << "failed", n >>
                /\ \A k \in Phases : k >= n => ~Logged("saved", k) /\ ~Logged("ran", k)
          /\ (pc = "exited" /\ exit_code = 0) => Logged("saved", n)
    /\ Cardinality({ f \in CheckpointFiles : files[f] # NoCheckpoint })
          = Cardinality({ n \in Phases : Logged("saved", n) })

\* C5 witness: Phase 2 failed after the Phase 1 checkpoint was saved.
C5_Witness ==
    /\ Logged("saved", 1)
    /\ Logged("failed", 2)
    /\ files["phase1_phase1checkpoint.json"].phase = 1

\* The events of a run no stage of which fails.
Schedule ==
    [ i \in 1..10 |-> IF i % 2 = 1 THEN << "ran", (i + 1) \div 2 >>
                      ELSE << "saved", i \div 2 >> ]

\* Where run is when it is about to call run_phase<n>.
StartOf == << "phase1", "phase2", "phase3", "phase4", "phase5" >>

\* C6: the stages run in the order 1..5, each saved before the next starts:
\* the events follow the schedule, up to a failure of the stage whose turn it
\* is or an interrupt; and a stage starts only with its predecessor's
\* checkpoint returned and in its file.
C6_StagesInOrder ==
    /\ \A i \in DOMAIN log :
          \/ log[i] = Schedule[i]
          \/ /\ i = Len(log)
             /\ \/ log[i] = << "interrupted", 0 >>
                \/ /\ i % 2 = 1
                   /\ log[i] = << "failed", Schedule[i][2] >>
    /\ \A n \in 1..4 :
          pc = StartOf[n + 1]
          => /\ Len(log) = 2 * n
             /\ CheckpointOf(n) # NoCheckpoint
             /\ \E f \in CheckpointFiles : files[f] = Dump(heap, CheckpointOf(n))

\* C6 witness: Phase 5 is about to start.
C6_Witness ==
    /\ pc = "phase5"
    /\ Logged("saved", 4)

-----------------------------------------------------------------------------
(* Assembly: Phase 3 on the Phase 2 checkpoints of one or two videos *)

MaxSegments == 3

\* A video whose scene changes cut it into windows of the given lengths
\* (seconds), followed by a 2 s tail.
RECURSIVE CutsOf(_, _)
CutsOf(lengths, from) ==
    IF lengths = << >> THEN {}
    ELSE { from + Head(lengths) } \cup CutsOf(Tail(lengths), from + Head(lengths))

VideoOf(lengths, file_timestamp) ==
    Video(SumSeq(lengths) + 2, CutsOf(lengths, 0), file_timestamp)

WindowLengths == { 5, 15 }
AssemblyTargets == { Sec(8), Sec(12), Sec(20), Sec(33) }
VividFrames == Analysis(5, Points(9), Points(9), Points(9))    \* quality 9.0
AssemblyAnalysis == { DullFrames, LivelyFrames, VividFrames }

LengthLists(lo, hi) == UNION { [ 1..k -> WindowLengths ] : k \in lo..hi }

\* The state in which run_phase3 starts: Phases 1 and 2 have run and their
\* checkpoints are saved.
AfterPhase2(cfg, m, a) ==
    /\ ~Phase1Raises(cfg, m)
    /\ \E r1 \in { Phase1Result(cfg, m, 0) } :
       \E r2 \in { Phase2Result(cfg, r1.heap, r1.checkpoint, a) } :
        /\ ~r2.raises
        /\ pc = "phase3"
        /\ config = cfg
        /\ media = m
        /\ heap = r2.heap
        /\ next_uuid = r1.next_uuid
        /\ phase1_checkpoint = r1.checkpoint
        /\ phase2_checkpoint = r2.checkpoint
        /\ phase3_checkpoint = NoCheckpoint
        /\ phase4_checkpoint = NoCheckpoint
        /\ phase5_checkpoint = NoCheckpoint
        /\ files = [ f \in CheckpointFiles |->
                       CASE f = CheckpointFileName(1) -> Dump(r1.heap, r1.checkpoint)
                         [] f = CheckpointFileName(2) -> Dump(r2.heap, r2.checkpoint)
                         [] OTHER -> NoCheckpoint ]
        /\ composed = << >>
        /\ log = << << "ran", 1 >>, << "saved", 1 >>, << "ran", 2 >>, << "saved", 2 >> >>
        /\ exit_code = NoExit
        /\ runs = 1
        /\ analysed = a
        /\ interrupted = FALSE

InitAssembly ==
    \E clip \in LengthLists(1, MaxSegments) :
      \E trip \in LengthLists(0, MaxSegments - Len(clip)) :
        \E target_duration \in AssemblyTargets :
          \E a \in [ 1..(Len(clip) + Len(trip)) -> AssemblyAnalysis ] :
            AfterPhase2([ input_videos |-> IF trip = << >>
                                           THEN << "/a/clip.mp4" >>
                                           ELSE << "/a/clip.mp4", "/a/trip.mp4" >>,
                          target_duration |-> target_duration,
                          min_quality_threshold |-> Points(7),
                          sample_rate_fps |-> 1,
                          resume_from_phase |-> 1 ],
                        [ p \in InputPaths |->
                            CASE p = "/a/clip.mp4" -> VideoOf(clip, Sec(1000))
                              [] p = "/a/trip.mp4" ->
                                    IF trip = << >> THEN MissingFile
                                    ELSE VideoOf(trip, Sec(2000))
                              [] p = "/b/clip.mp4" -> MissingFile ],
                        a)

NextAssembly ==
    \/ RunPhase3
    \/ SaveCheckpoint3

SpecAssembly == InitAssembly /\ [][NextAssembly]_vars

-----------------------------------------------------------------------------
(* Properties of assembly *)

\* The segments Phase 3 filters from its input checkpoint, and what it
\* selected.
IncludedSegments ==
    SelectSeq(Deref(heap, phase2_checkpoint.segments), LAMBDA seg : seg.included)

SelectedSegments == Deref(heap, phase3_checkpoint.selected_segments)

Assembled == phase3_checkpoint # NoCheckpoint

Ids(segments) == { segments[i].segment_id : i \in DOMAIN segments }

\* C1: unless the included segments together are shorter than the target
\* (the fallback), the selected segments total at most target + 5 s.
C1_GreedyWithinOverflow ==
    (Assembled /\ TotalAvailable(IncludedSegments) >= config.target_duration)
        => TotalAvailable(SelectedSegments) <= config.target_duration + Sec(5)

\* C1 witness: a selection outside the fallback that runs over the target.
C1_Witness ==
    /\ Assembled
    /\ TotalAvailable(IncludedSegments) >= config.target_duration
    /\ TotalAvailable(SelectedSegments) > config.target_duration

\* C8: the selected ids are in ascending order of start_time.
C8_SortedByStartTime ==
    Assembled =>
        \A i, j \in DOMAIN SelectedSegments :
            i < j => SelectedSegments[i].start_time <= SelectedSegments[j].start_time

\* C8 witness: a greedy selection whose chronological order is not the
\* order of quality in which the walk picked the segments.
C8_Witness ==
    /\ Assembled
    /\ TotalAvailable(IncludedSegments) >= config.target_duration
    /\ \E i, j \in DOMAIN SelectedSegments :
          /\ i < j
          /\ SelectedSegments[i].start_time < SelectedSegments[j].start_time
          /\ SelectedSegments[i].quality_score < SelectedSegments[j].quality_score

\* The absolute timestamp of a segment: its video's base timestamp plus its
\* start time.
AbsoluteTime(seg) ==
    media[FindSourceVideo(config.input_videos, seg.video_id)].file_timestamp
        + seg.start_time

\* C9: the selected segments are in ascending order of absolute timestamp.
C9_ChronologicalAcrossVideos ==
    Assembled =>
        \A i, j \in DOMAIN SelectedSegments :
            i < j => AbsoluteTime(SelectedSegments[i]) <= AbsoluteTime(SelectedSegments[j])

\* C10: when the included segments together are shorter than the target,
\* every included segment is selected, the selection is shorter than the
\* target, and the greedy walk alone selects the same set.
C10_FallbackSelectsAll ==
    (Assembled /\ TotalAvailable(IncludedSegments) < config.target_duration)
        => /\ Range(phase3_checkpoint.selected_segments) = Ids(IncludedSegments)
           /\ TotalAvailable(SelectedSegments) < config.target_duration
           /\ Ids(Greedy(IncludedSegments, config.target_duration).selected)
                 = Ids(IncludedSegments)

\* C10 witness: an assembly of two or more included segments that together
\* are shorter than the target.
C10_Witness ==
    /\ Assembled
    /\ TotalAvailable(IncludedSegments) < config.target_duration
    /\ Len(IncludedSegments) >= 2
    /\ Len(phase3_checkpoint.selected_segments) = Len(IncludedSegments)

-----------------------------------------------------------------------------
(* Runs one after the other over the same checkpoint directory *)

MaxRuns == 2

RerunMedia ==
    { [ p \in InputPaths |->
          IF p = "/a/clip.mp4" THEN Video(17, { 10 }, 100) ELSE MissingFile ] }

InitRerun == InitWith(RerunMedia)

\* main is started again, with any --resume-from-phase.
StartRerun ==
    /\ runs < MaxRuns
    /\ Main({ << "/a/clip.mp4" >> }, { Sec(12) }, { Points(7) }, { 1, 2, 3 })

RerunPhase2 == Phase2({ DullFrames, LivelyFrames })

NextRerun ==
    \/ StartRerun
    \/ RunPhase1
    \/ SaveCheckpoint1
    \/ RerunPhase2
    \/ SaveCheckpoint2
    \/ RunPhase3
    \/ SaveCheckpoint3
    \/ RunPhase4
    \/ SaveCheckpoint4
    \/ RunPhase5
    \/ SaveCheckpoint5
    \/ Interrupt

SpecRerun == InitRerun /\ [][NextRerun]_vars

\* The checkpoint file of a stage, left by an earlier run.
SavedEarlier(phase) ==
    /\ ~Logged("saved", phase)
    /\ \E f \in CheckpointFiles : files[f].phase = phase

-----------------------------------------------------------------------------
(* Properties of the Phase 3 checkpoint *)

\* C11: every selected id is the id of an included segment of the Phase 2
\* checkpoint, no id is selected twice, and actual_duration is the sum of
\* the durations of the selected segments.
C11_SelectedAreIncluded ==
    Assembled =>
        LET selected == phase3_checkpoint.selected_segments
        IN  /\ \A i \in DOMAIN selected :
                  /\ selected[i] \in Range(phase2_checkpoint.segments)
                  /\ heap[selected[i]].included
            /\ \A i, j \in DOMAIN selected : selected[i] = selected[j] => i = j
            /\ phase3_checkpoint.actual_duration
                  = SumSeq([ i \in DOMAIN selected |-> heap[selected[i]].duration ])

\* C11 witness: two segments are selected from a Phase 2 checkpoint that
\* also holds a segment below the threshold.
C11_Witness ==
    /\ Assembled
    /\ Len(phase3_checkpoint.selected_segments) >= 2
    /\ \E i \in DOMAIN phase2_checkpoint.segments :
          ~heap[phase2_checkpoint.segments[i]].included

-----------------------------------------------------------------------------
(* Ranking: Phase 2 on a one-segment Phase 1 checkpoint, over a grid of
   analyser results *)

\* The state in which run_phase2 starts: Phase 1 has run and its checkpoint
\* is saved.
AfterPhase1(cfg, m) ==
    LET r1 == Phase1Result(cfg, m, 0)
    IN  /\ ~Phase1Raises(cfg, m)
        /\ pc = "phase2"
        /\ config = cfg
        /\ media = m
        /\ heap = r1.heap
        /\ next_uuid = r1.next_uuid
        /\ phase1_checkpoint = r1.checkpoint
        /\ phase2_checkpoint = NoCheckpoint
        /\ phase3_checkpoint = NoCheckpoint
        /\ phase4_checkpoint = NoCheckpoint
        /\ phase5_checkpoint = NoCheckpoint
        /\ files = [ f \in CheckpointFiles |->
                       IF f = CheckpointFileName(1) THEN Dump(r1.heap, r1.checkpoint)
                       ELSE NoCheckpoint ]
        /\ composed = << >>
        /\ log = << << "ran", 1 >>, << "saved", 1 >> >>
        /\ exit_code = NoExit
        /\ runs = 1
        /\ analysed = << >>
        /\ interrupted = FALSE

\* Sub-scores at, just below and just above the thresholds of the tags,
\* between tenths, and at the ends of the scale.
RankingScores ==
    { Points(1), 295, Points(3), 305, 595, Points(6), 695, Points(7), 795,
      Points(8), Points(9), Points(10) }

RankingAnalysis ==
    { InsufficientFrames }
      \cup { Analysis(5, m, s, c) : m \in RankingScores, s \in RankingScores,
                                    c \in RankingScores }

InitRanking ==
    \E min_quality_threshold \in { Points(1), Points(7) } :
        AfterPhase1([ input_videos |-> << "/a/clip.mp4" >>,
                      target_duration |-> Sec(12),
                      min_quality_threshold |-> min_quality_threshold,
                      sample_rate_fps |-> 1,
                      resume_from_phase |-> 1 ],
                    [ p \in InputPaths |->
                        IF p = "/a/clip.mp4" THEN Video(12, {}, 100) ELSE MissingFile ])

RankPhase2 == Phase2(RankingAnalysis)

NextRanking ==
    \/ RankPhase2
    \/ SaveCheckpoint2

SpecRanking == InitRanking /\ [][NextRanking]_vars

\* The positions of the Phase 1 checkpoint whose segment run_phase2 scored
\* from at least 2 frames.
Scored ==
    { i \in DOMAIN analysed :
        extract_segment_frames(heap[phase1_checkpoint.segments[i]],
                               config.input_videos, analysed[i].frames) >= 2 }

ScoredSegment(i) == heap[phase1_checkpoint.segments[i]]

Tags == { "high-action", "static", "dynamic-scene", "visually-rich",
          "highlight-candidate", "neutral" }

\* C12: a segment scored from sub-scores in [1,10] carries exactly the tags
\* whose rule holds for the sub-scores, each once, and neutral exactly when
\* no other tag applies.
C12_ClassificationRules ==
    \A i \in Scored :
        LET motion == analysed[i].motion
            scene == analysed[i].scene
            composition == analysed[i].composition
            classifications == ScoredSegment(i).classifications
            tags == Range(classifications)
        IN  /\ tags \subseteq Tags
            /\ Len(classifications) = Cardinality(tags)
            /\ "high-action" \in tags <=> motion >= Points(7)
            /\ "static" \in tags <=> motion <= Points(3)
            /\ "dynamic-scene" \in tags <=> scene >= Points(6)
            /\ "visually-rich" \in tags <=> composition >= Points(8)
            /\ "highlight-candidate" \in tags
                  <=> (motion >= Points(6) /\ scene >= Points(6))
            /\ "neutral" \in tags <=> tags = { "neutral" }
            /\ tags # {}

\* C12 witness: motion 8, scene 7 and composition 9 give the four tags
\* high-action, dynamic-scene, visually-rich and highlight-candidate.
C12_Witness ==
    \E i \in Scored :
        /\ analysed[i].motion = Points(8)
        /\ analysed[i].scene = Points(7)
        /\ analysed[i].composition = Points(9)
        /\ Range(ScoredSegment(i).classifications)
              = { "high-action", "dynamic-scene", "visually-rich",
                  "highlight-candidate" }

\* 0.6 * scene + 0.25 * motion + 0.15 * composition, in 1/10000 of a point.
Weighted(a) == 60 * a.scene + 25 * a.motion + 15 * a.composition

\* C14: the stored quality score of a segment scored from at least 2 frames
\* is a multiple of 0.1 within 0.05 of 0.6*scene + 0.25*motion +
\* 0.15*composition (whichever way a tie of the rounding goes), and lies in
\* [1,10] for sub-scores in [1,10].
C14_QualityFormula ==
    \A i \in Scored :
        LET quality_score == ScoredSegment(i).quality_score
        IN  /\ quality_score % 10 = 0
            /\ Abs(quality_score * 100 - Weighted(analysed[i])) <= 500
            /\ quality_score >= Points(1) /\ quality_score <= Points(10)

\* C14 witness: a segment is scored whose weighted sum lies between two
\* tenths and not half way, so that the rounding moved it.
C14_Witness ==
    \E i \in Scored :
        /\ Weighted(analysed[i]) % 1000 \notin { 0, 500 }
        /\ ScoredSegment(i).quality_score * 100 # Weighted(analysed[i])
        /\ analysed[i].motion # analysed[i].scene

-----------------------------------------------------------------------------
(* The variety score *)

\* The gaps, in seconds, between consecutive selected segments: from the end
\* of one to the start of the next.
Gaps(segments) ==
    [ i \in 1..(Len(segments) - 1) |->
        (segments[i + 1].start_time - segments[i].end_time) \div TicksPerSecond ]

\* Whether v (in hundredths) is 1 - stddev(gaps) / (mean(gaps) + 1) clamped
\* to [0,1], to the nearest hundredth.  With n gaps of sum S and sum of
\* squares Q, stddev / (mean + 1) is sqrt(n * Q - S * S) / (S + n).
IsVarietyOf(gaps, v) ==
    LET n == Len(gaps)
        S == SumSeq(gaps)
        Q == SumSeq([ i \in DOMAIN gaps |-> gaps[i] * gaps[i] ])
        V == n * Q - S * S
        D == S + n
        lo == 2 * (100 - v) * D - D
        hi == 2 * (100 - v) * D + D
    IN  IF n = 0 THEN v = 100                     \* fewer than 2 segments
        ELSE IF S = 0 THEN v = 50                 \* the mean gap is zero
        ELSE IF D = 0 THEN TRUE                   \* mean + 1 = 0: not defined
        ELSE IF D < 0 THEN v = 100
        ELSE IF V >= D * D THEN v = 0
        ELSE /\ v >= 0 /\ v <= 100
             /\ lo <= 0 \/ lo * lo <= 40000 * V
             /\ hi * hi >= 40000 * V

\* C13: the variety score of the Phase 3 checkpoint is 1.0 for fewer than
\* 2 selected segments, 0.5 when the mean gap is zero, and otherwise
\* 1 - stddev(gaps) / (mean(gap) + 1) clamped to [0,1].
C13_VarietyAsSpecified ==
    Assembled => IsVarietyOf(Gaps(SelectedSegments), phase3_checkpoint.variety_score)

-----------------------------------------------------------------------------
(* Failures of Phase 1 *)

\* C15: when segmentation yields no segment for any input video, Phase 1
\* does not return: there is no Phase 1 checkpoint, in memory or in a file,
\* the run is over once Phase 1 was called, and Phase 2 is never started.
C15_NoSegmentsIsFatal ==
    (config # NoConfig /\ pc # "phase1" /\ Len(Phase1Windows(config, media)) = 0)
        => /\ pc = "exited"
           /\ phase1_checkpoint = NoCheckpoint
           /\ \A f \in CheckpointFiles : files[f] = NoCheckpoint
           /\ ~Logged("ran", 1) /\ ~Logged("saved", 1)
           /\ \A i \in DOMAIN log : log[i][2] # 2

\* C15 witness: Phase 1 failed on input videos that are all valid and
\* readable and yield no segment.
C15_Witness ==
    /\ Logged("failed", 1)
    /\ \A i \in DOMAIN config.input_videos :
          /\ media[config.input_videos[i]].valid_mp4
          /\ media[config.input_videos[i]].openable
    /\ Len(Phase1Windows(config, media)) = 0

\* C16: Phase 1 fails only if no input video yields a segment.
C16_FailsOnlyWithoutSegments ==
    Logged("failed", 1) =>
        \A i \in DOMAIN config.input_videos :
            LET video == media[config.input_videos[i]]
            IN  (video.valid_mp4 /\ video.openable)
                    => detect_segments(video, config.sample_rate_fps) = << >>

-----------------------------------------------------------------------------
(* The score weights of the Phase 2 checkpoint *)

WeightKeys == { "scene", "motion", "composition", "audio" }
WeightValues == { 0, 15, 25, 59, 60, 61, 62 }

\* The weight maps a Phase2Checkpoint may be constructed with.
WeightMaps == UNION { [ keys -> WeightValues ] : keys \in SUBSET WeightKeys }

RECURSIVE SumOver(_, _)
SumOver(v, keys) ==
    IF keys = {} THEN 0
    ELSE LET k == CHOOSE x \in keys : TRUE
         IN  v[k] + SumOver(v, keys \ { k })

WeightsAsRequired(v) ==
    /\ DOMAIN v = { "scene", "motion", "composition" }
    /\ SumOver(v, DOMAIN v) >= 99 /\ SumOver(v, DOMAIN v) <= 101

\* C17: the weight map of every Phase 2 checkpoint, in memory or in its
\* file, has exactly the keys scene, motion, composition and values that sum
\* to 1.0 within 0.01; and the validator of Phase2Checkpoint rejects every
\* weight map that has other keys or another sum.
C17_ScoreWeights ==
    /\ phase2_checkpoint # NoCheckpoint => WeightsAsRequired(phase2_checkpoint.score_weights)
    /\ \A f \in CheckpointFiles :
          files[f].phase = 2 => WeightsAsRequired(files[f].score_weights)
    /\ \A v \in WeightMaps :
          validate_weights(DOMAIN v, SumOver(v, DOMAIN v)) => WeightsAsRequired(v)

\* C17 witness: a Phase 2 checkpoint with the weights 0.6, 0.25, 0.15 is
\* saved.
C17_Witness ==
    /\ Logged("saved", 2)
    /\ \E f \in CheckpointFiles :
          /\ files[f].phase = 2
          /\ files[f].score_weights
                = [ scene |-> 60, motion |-> 25, composition |-> 15 ]

-----------------------------------------------------------------------------
(* Exit codes *)

\* C18: main returns 0 exactly when all five stages completed, 1 when the
\* input validation or a stage raised, and 130 when a KeyboardInterrupt was
\* raised during the run.
C18_ExitCodes ==
    pc = "exited" =>
        /\ exit_code = 0 <=> \A n \in Phases : Logged("saved", n)
        /\ (log = << >> \/ \E n \in Phases : Logged("failed", n)) => exit_code = 1
        /\ interrupted => exit_code = 130

-----------------------------------------------------------------------------
(* The greedy walk *)

\* The included segments in the order of the walk, and the ones selected.
Ranked == SortByQuality(IncludedSegments)

Picked(i) == Ranked[i].segment_id \in Range(phase3_checkpoint.selected_segments)

\* The running total when the walk comes to position i.
Before(i) ==
    SumSeq([ j \in 1..(i - 1) |-> IF Picked(j) THEN Ranked[j].duration ELSE 0 ])

\* The segment at position i was added and took the total over the target.
Crossed(i) == Picked(i) /\ Before(i) + Ranked[i].duration > config.target_duration

\* C19: a selected segment was reached with the total below the target and
\* before any segment crossed it, and either fits or runs over by less
\* than 5 s; a segment not selected was reached with the total at or over
\* the target, or after a segment crossed it, or would run over by 5 s or
\* more.
C19_GreedyWalk ==
    Assembled =>
        \A i \in DOMAIN Ranked :
            LET total == Before(i) + Ranked[i].duration
                target_duration == config.target_duration
                stopped == \/ Before(i) >= target_duration
                           \/ \E j \in 1..(i - 1) : Crossed(j)
            IN  IF Picked(i)
                THEN /\ ~stopped
                     /\ total <= target_duration \/ total - target_duration < Sec(5)
                ELSE \/ stopped
                     \/ total > target_duration /\ total - target_duration >= Sec(5)

\* C19 witness: a segment was skipped for running over by 5 s or more and a
\* segment of lower rank was added after it.
C19_Witness ==
    /\ Assembled
    /\ \E i, j \in DOMAIN Ranked :
          /\ i < j
          /\ ~Picked(i)
          /\ Before(i) < config.target_duration
          /\ Before(i) + Ranked[i].duration - config.target_duration >= Sec(5)
          /\ Picked(j)

-----------------------------------------------------------------------------
(* Segmentation: Phase 1 on one video with one window of every length *)

MaxWindow == 45

InitSegmentation ==
    \E lead \in { 0, 3, 7 }, d \in 1..MaxWindow, tail \in { 2, 8 } :
        /\ pc = "phase1"
        /\ config = [ input_videos |-> << "/a/clip.mp4" >>,
                      target_duration |-> Sec(12),
                      min_quality_threshold |-> Points(7),
                      sample_rate_fps |-> 1,
                      resume_from_phase |-> 1 ]
        /\ media = [ p \in InputPaths |->
                       IF p = "/a/clip.mp4"
                       THEN Video(lead + d + tail, { lead, lead + d }, 100)
                       ELSE MissingFile ]
        /\ heap = << >>
        /\ next_uuid = 0
        /\ phase1_checkpoint = NoCheckpoint
        /\ phase2_checkpoint = NoCheckpoint
        /\ phase3_checkpoint = NoCheckpoint
        /\ phase4_checkpoint = NoCheckpoint
        /\ phase5_checkpoint = NoCheckpoint
        /\ files = [ f \in CheckpointFiles |-> NoCheckpoint ]
        /\ composed = << >>
        /\ log = << >>
        /\ exit_code = NoExit
        /\ runs = 1
        /\ analysed = << >>
        /\ interrupted = FALSE

NextSegmentation ==
    \/ RunPhase1
    \/ SaveCheckpoint1

SpecSegmentation == InitSegmentation /\ [][NextSegmentation]_vars

\* The scene boundaries of the video, in ticks.
Boundaries ==
    { 0 } \cup { Sec(c) : c \in { x \in media["/a/clip.mp4"].cuts : x >= 1 } }

\* The windows between two consecutive boundaries.
BoundaryWindows ==
    { w \in Boundaries \X Boundaries :
        /\ w[1] < w[2]
        /\ ~\E b \in Boundaries : w[1] < b /\ b < w[2] }

\* The segments Phase 1 made inside a window.
SegmentsIn(w) ==
    { heap[id] : id \in { x \in DOMAIN heap :
                            heap[x].start_time >= w[1] /\ heap[x].end_time <= w[2] } }

\* C20: a window shorter than 5 s yields no segment; one of 5 s to 15 s
\* yields one segment that covers it; a longer one yields no segment if it
\* is shorter than 20 s and otherwise floor(d / 10) segments of equal length
\* that tile it: the first starts where the window starts, each next one
\* where the one before ends, and the last ends where the window ends.
C20_WindowSegments ==
    Logged("ran", 1) =>
        \A w \in BoundaryWindows :
            LET d == w[2] - w[1]
                segs == SegmentsIn(w)
                N == d \div Sec(10)
            IN  IF d < Sec(5) \/ (d > Sec(15) /\ d < Sec(20)) THEN segs = {}
                ELSE IF d <= Sec(15)
                THEN /\ Cardinality(segs) = 1
                     /\ \A seg \in segs :
                           /\ seg.start_time = w[1] /\ seg.end_time = w[2]
                           /\ seg.duration = d
                ELSE /\ Cardinality(segs) = N
                     /\ \A seg \in segs :
                           /\ seg.duration * N = d
                           /\ seg.end_time - seg.start_time = seg.duration
                           /\ seg.duration >= Sec(5) /\ seg.duration <= Sec(15)
                           /\ \/ seg.start_time = w[1]
                              \/ \E before \in segs : before.end_time = seg.start_time
                           /\ \/ seg.end_time = w[2]
                              \/ \E after \in segs : after.start_time = seg.end_time

\* C20 witness: a window of 25 s was split into two segments of 12.5 s.
C20_Witness ==
    /\ Logged("ran", 1)
    /\ \E w \in BoundaryWindows :
          /\ w[2] - w[1] = Sec(25)
          /\ Cardinality(SegmentsIn(w)) = 2
          /\ \A seg \in SegmentsIn(w) : seg.duration * 2 = Sec(25)

-----------------------------------------------------------------------------
(* The tail window: Phase 1 on one video with a tail of every length *)

MaxTail == 30

InitTail ==
    \E lead \in { 0, 4, 9 }, t \in (1..MaxTail) \cup { 15 * 60 }, whole \in BOOLEAN :
        /\ pc = "phase1"
        /\ config = [ input_videos |-> << "/a/clip.mp4" >>,
                      target_duration |-> Sec(12),
                      min_quality_threshold |-> Points(7),
                      sample_rate_fps |-> 1,
                      resume_from_phase |-> 1 ]
        /\ media = [ p \in InputPaths |->
                       IF p = "/a/clip.mp4"
                       THEN IF whole THEN Video(lead + t, { lead }, 100)
                            ELSE ShortRead(Video(lead + t, { lead }, 100), 1)
                       ELSE MissingFile ]
        /\ heap = << >>
        /\ next_uuid = 0
        /\ phase1_checkpoint = NoCheckpoint
        /\ phase2_checkpoint = NoCheckpoint
        /\ phase3_checkpoint = NoCheckpoint
        /\ phase4_checkpoint = NoCheckpoint
        /\ phase5_checkpoint = NoCheckpoint
        /\ files = [ f \in CheckpointFiles |-> NoCheckpoint ]
        /\ composed = << >>
        /\ log = << >>
        /\ exit_code = NoExit
        /\ runs = 1
        /\ analysed = << >>
        /\ interrupted = FALSE

NextTail ==
    \/ RunPhase1
    \/ SaveCheckpoint1

SpecTail == InitTail /\ [][NextTail]_vars

\* Phase 1 has returned or raised.
SegmentationOver == Logged("ran", 1) \/ Logged("failed", 1)

TheVideo == media["/a/clip.mp4"]

\* The frames at which a scene change was detected: a change is seen only
\* between two frames that were both read.
DetectedChanges == { c \in TheVideo.cuts : c >= 1 /\ c <= TheVideo.n_frames - 1 }

\* Where the tail window starts, in ticks: the last boundary.
LastBoundary ==
    Sec(CHOOSE b \in { 0 } \cup DetectedChanges :
            \A c \in DetectedChanges : c <= b)

TailDuration == TheVideo.duration_seconds - LastBoundary

\* The segments Phase 1 made of the video, and those in its tail window.
SegmentsMade == { heap[id] : id \in DOMAIN heap }
TailSegmentsMade == { seg \in SegmentsMade : seg.start_time >= LastBoundary }

InRange(duration) == duration >= Sec(5) /\ duration <= Sec(15)

\* C21 as stated: the tail window is emitted as one segment exactly when its
\* duration is in [5,15] s, and a video with no detected scene change yields
\* one segment when its whole duration is in [5,15] s and none otherwise.
C21_TailAsStated ==
    SegmentationOver =>
        /\ Cardinality(TailSegmentsMade) = (IF InRange(TailDuration) THEN 1 ELSE 0)
        /\ DetectedChanges = {} =>
              Cardinality(SegmentsMade)
                = (IF InRange(TheVideo.duration_seconds) THEN 1 ELSE 0)

\* C21: when at least 2 frames of the video were read, the tail window from
\* the last boundary to the end of the video is emitted as one segment that
\* covers it exactly when its duration is in [5,15] s, and is otherwise not
\* emitted at all (never split); so a video with no detected scene change
\* yields one segment when its whole duration is in [5,15] s and none
\* otherwise.  When fewer than 2 frames were read the video yields no
\* segment, whatever its duration.
C21_TailWindow ==
    SegmentationOver =>
        IF TheVideo.n_frames < 2 THEN SegmentsMade = {}
        ELSE /\ IF InRange(TailDuration)
                THEN /\ Cardinality(TailSegmentsMade) = 1
                     /\ \A seg \in TailSegmentsMade :
                           /\ seg.start_time = LastBoundary
                           /\ seg.end_time = TheVideo.duration_seconds
                           /\ seg.duration = TailDuration
                ELSE TailSegmentsMade = {}
             /\ DetectedChanges = {} =>
                   Cardinality(SegmentsMade)
                     = (IF InRange(TheVideo.duration_seconds) THEN 1 ELSE 0)

\* C21 witness: a video of 12 s with no scene change became one segment.
C21_Witness ==
    /\ Logged("ran", 1)
    /\ TheVideo.n_frames >= 2
    /\ DetectedChanges = {}
    /\ TheVideo.duration_seconds = Sec(12)
    /\ Cardinality(SegmentsMade) = 1

-----------------------------------------------------------------------------
(* The order of the Phase 1 segment list *)

\* The segment list of the Phase 1 checkpoint.
Phase1Segments == Deref(heap, phase1_checkpoint.segments)

\* The position in the input list of the video a segment was cut from (the
\* input lists of a run have distinct file name stems).
InputPosition(seg) ==
    CHOOSE v \in DOMAIN config.input_videos :
        Stem(config.input_videos[v]) = seg.video_id

\* C22: in the Phase 1 segment list the segments of one video are in
\* ascending start-time order and none starts before an earlier one of that
\* video ends, and the segments of an input video come after all segments
\* of the input videos before it: the list is the per-video lists, one after
\* the other in input order.
C22_PerVideoInInputOrder ==
    phase1_checkpoint # NoCheckpoint =>
        \A i \in DOMAIN Phase1Segments, j \in DOMAIN Phase1Segments :
            i < j =>
                /\ InputPosition(Phase1Segments[i]) <= InputPosition(Phase1Segments[j])
                /\ Phase1Segments[i].video_id = Phase1Segments[j].video_id =>
                      /\ Phase1Segments[i].start_time < Phase1Segments[j].start_time
                      /\ Phase1Segments[i].end_time <= Phase1Segments[j].start_time

\* C22 witness: two input videos, the first cut into split chunks and a
\* tail, the second into two chunks.
C22_Witness ==
    /\ phase1_checkpoint # NoCheckpoint
    /\ Len(config.input_videos) = 2
    /\ Len(Phase1Segments) = 6
    /\ Phase1Segments[4].video_id = Stem(config.input_videos[1])
    /\ Phase1Segments[5].video_id = Stem(config.input_videos[2])
    /\ Phase1Segments[6].start_time = Phase1Segments[5].end_time

-----------------------------------------------------------------------------
(* Segments with too few frames *)

\* The positions whose segment run_phase2 found fewer than 2 frames for.
Unscored == DOMAIN analysed \ Scored

\* C23: a segment for which fewer than 2 frames are obtained gets motion,
\* scene, composition and quality 1.0 and included = false, whatever the
\* threshold; the other segments of the list are scored from their own
\* frames all the same, and the stage fails only when no segment of the
\* list reaches the threshold.
C23_InsufficientFrames ==
    /\ \A i \in Unscored :
          /\ ScoredSegment(i).motion_score = Points(1)
          /\ ScoredSegment(i).scene_score = Points(1)
          /\ ScoredSegment(i).composition_score = Points(1)
          /\ ScoredSegment(i).quality_score = Points(1)
          /\ ~ScoredSegment(i).included
    /\ Unscored # {} =>
          /\ \A i \in Scored :
                /\ ScoredSegment(i).motion_score = Round1(analysed[i].motion, 100)
                /\ ScoredSegment(i).scene_score = Round1(analysed[i].scene, 100)
                /\ ScoredSegment(i).composition_score
                      = Round1(analysed[i].composition, 100)
                /\ ScoredSegment(i).quality_score # None
          /\ Logged("failed", 2) =>
                \A i \in DOMAIN analysed :
                    ScoredSegment(i).quality_score < config.min_quality_threshold

\* C23 witness: at threshold 1.0 a segment without frames is left out and
\* the segment after it is scored and included; Phase 2 returned.
C23_Witness ==
    /\ Logged("ran", 2)
    /\ config.min_quality_threshold = Points(1)
    /\ \E i \in Unscored, j \in Scored :
          /\ i < j
          /\ ~ScoredSegment(i).included
          /\ ScoredSegment(j).included

-----------------------------------------------------------------------------
(* Extraction failures in Phase 4 *)

\* C24: whenever Phase 4 returns its checkpoint, the composed output holds
\* every segment of the Phase 3 selection, in the order of the selection,
\* none left out.
C24_ComposedIsSelection ==
    phase4_checkpoint # NoCheckpoint =>
        composed = phase3_checkpoint.selected_segments

-----------------------------------------------------------------------------
(* How far the greedy walk can fall short *)

\* C25: when the included segments together last at least the target, the
\* selected segments together last at least the target less 10 s.
C25_UndershootAtMostTen ==
    (Assembled /\ TotalAvailable(IncludedSegments) >= config.target_duration)
        => /\ TotalAvailable(SelectedSegments) >= config.target_duration - Sec(10)
           /\ phase3_checkpoint.actual_duration >= config.target_duration - Sec(10)

\* C25 witness: the included segments would fill the target, yet the walk
\* skipped a segment and ended exactly 10 s short of it.
C25_Witness ==
    /\ Assembled
    /\ TotalAvailable(IncludedSegments) >= config.target_duration
    /\ TotalAvailable(SelectedSegments) = config.target_duration - Sec(10)
    /\ Len(SelectedSegments) < Len(IncludedSegments)

\* C26: with at least one included segment in the Phase 2 checkpoint and a
\* target above 0, Phase 3 returns a checkpoint with a selection that is not
\* empty and actual_duration > 0.
C26_AssemblySucceeds ==
    (pc # "phase3" /\ IncludedSegments # << >> /\ config.target_duration > 0)
        => /\ Assembled
           /\ ~Logged("failed", 3)
           /\ phase3_checkpoint.selected_segments # << >>
           /\ phase3_checkpoint.actual_duration > 0

-----------------------------------------------------------------------------
(* The included flag and the count of the Phase 2 checkpoint *)

\* The segment list of the Phase 2 checkpoint.
Phase2Segments == Deref(heap, phase2_checkpoint.segments)

\* C27: in every Phase 2 checkpoint segments_above_threshold is the number
\* of segments whose included flag is true, and a segment is included
\* exactly when its stored quality score is at least min_quality_threshold.
C27_IncludedIsAboveThreshold ==
    phase2_checkpoint # NoCheckpoint =>
        /\ phase2_checkpoint.segments_above_threshold
              = Len(SelectSeq(Phase2Segments, LAMBDA seg : seg.included))
        /\ \A i \in DOMAIN Phase2Segments :
              Phase2Segments[i].included
                  <=> (Phase2Segments[i].quality_score
                          >= phase2_checkpoint.min_quality_threshold)

-----------------------------------------------------------------------------
(* The tags against the stored scores *)

\* C28: for every segment Phase 2 scored, the stored tags are the tags the
\* threshold table gives for the stored motion, scene and composition
\* scores (one decimal), also for a segment with too few frames and for
\* raw scores that round across a threshold.
C28_TagsMatchStoredScores ==
    \A i \in DOMAIN analysed :
        LET motion == ScoredSegment(i).motion_score
            scene == ScoredSegment(i).scene_score
            composition == ScoredSegment(i).composition_score
            tags == Range(ScoredSegment(i).classifications)
        IN  /\ "high-action" \in tags <=> motion >= Points(7)
            /\ "static" \in tags <=> motion <= Points(3)
            /\ "dynamic-scene" \in tags <=> scene >= Points(6)
            /\ "visually-rich" \in tags <=> composition >= Points(8)
            /\ "highlight-candidate" \in tags
                  <=> (motion >= Points(6) /\ scene >= Points(6))
            /\ "neutral" \in tags <=> tags = { "neutral" }

-----------------------------------------------------------------------------
(* Input paths with the same file name *)

SourcesMedia ==
    { [ p \in InputPaths |->
          CASE p = "/a/clip.mp4" -> clip
            [] p = "/b/clip.mp4" -> other
            [] p = "/a/trip.mp4" -> Video(28, { 25 }, 200) ] :
        clip \in { Video(17, { 10 }, 100), Video(12, {}, 100) },
        other \in { Video(27, { 17 }, 300), Video(9, {}, 300) } }

InitSources == InitWith(SourcesMedia)

\* main with two input paths, of the same or of different file names.
StartSources ==
    /\ runs = 0
    /\ Main({ << "/a/clip.mp4", "/b/clip.mp4" >>, << "/b/clip.mp4", "/a/clip.mp4" >>,
              << "/a/clip.mp4", "/a/trip.mp4" >> },
            { Sec(12) }, { Points(1), Points(7) }, { 1 })

SourcesPhase2 == Phase2({ DullFrames, LivelyFrames })

NextSources ==
    \/ StartSources
    \/ RunPhase1
    \/ SaveCheckpoint1
    \/ SourcesPhase2
    \/ SaveCheckpoint2

SpecSources == InitSources /\ [][NextSources]_vars

\* The input path the i-th segment of the Phase 1 list was cut from: the
\* video_path of the iteration of execute's loop that made it.
Origin(i) == Phase1Windows(config, media)[i].source

\* C29: every segment Phase 2 scored is read from the file it was cut from:
\* the input path found for its video_id is the path of the video that
\* produced it, also when two input paths have the same file name stem.
C29_ScoredFromOwnSource ==
    \A i \in DOMAIN analysed :
        FindSourceVideo(config.input_videos, ScoredSegment(i).video_id) = Origin(i)

-----------------------------------------------------------------------------
(* The checkpoint files after several runs *)

\* The checkpoint file of a stage as it is on disk.
SavedFile(phase) == files[CheckpointFileName(phase)]

\* C30: when a run has ended, after any sequence of runs over one checkpoint
\* directory, the saved files form one chain: every segment id of the saved stage-3 file is the
\* id of a segment of the saved stage-2 file, and every segment of the saved
\* stage-2 file is a segment of the saved stage-1 file.
C30_SavedFilesFormOneChain ==
    pc = "exited" =>
        /\ SavedFile(3) # NoCheckpoint =>
              /\ SavedFile(2) # NoCheckpoint
              /\ Range(SavedFile(3).selected_segments)
                    \subseteq Ids(SavedFile(2).segments)
        /\ SavedFile(2) # NoCheckpoint =>
              /\ SavedFile(1) # NoCheckpoint
              /\ Ids(SavedFile(2).segments) \subseteq Ids(SavedFile(1).segments)

====
